---------------------------- MODULE Spec2Model ----------------------------
(***************************************************************************)
(* Ticket Classification API (src/main.py, src/security.py, src/config.py). *)
(*                                                                         *)
(* One FastAPI application served by one event loop:                       *)
(*   POST /classify_ticket  body TicketRequest, X-API-Key dependency,      *)
(*                          slowapi limit "10/minute" per remote address,  *)
(*                          classify_ticket() -> instructor/OpenAI call    *)
(*   GET  /health                                                          *)
(*                                                                         *)
(* The order in which the framework runs the pieces of api_classify_ticket *)
(* is: JSON-decode the body, resolve the dependency authenticate_api_key,  *)
(* validate the body against TicketRequest, call the endpoint, which is    *)
(* the function wrapped by limiter.limit (the limiter is hit there), and   *)
(* only then the endpoint body runs classify_ticket.                       *)
(*                                                                         *)
(* classify_ticket is a plain (synchronous) function called from an        *)
(* "async def" endpoint: while it waits for the model the event loop is    *)
(* held by that request (variable blocked).                                *)
(*                                                                         *)
(* The limiter is slowapi's default: the fixed-window strategy over the    *)
(* in-memory storage.  max_retries=3 is handed to the instructor-patched   *)
(* client, which makes up to 3 attempts and repeats an attempt after any   *)
(* exception raised inside it.                                             *)
(*                                                                         *)
(* Init is the application once it serves requests.  As written, line 49   *)
(* of main.py reads settings.OPENAI_API_KEY while Settings declares        *)
(* openai_api_key; the model takes the client as constructed.              *)
(***************************************************************************)
EXTENDS Integers, Sequences, FiniteSets

(* ------------------------------ bounds -------------------------------- *)

\* connections the server has open at once
MaxConns == 2
\* clock ticks a behaviour may take
MaxTicks == 2
\* seconds the clock advances per tick
TickStep == 30
\* hits the limiter may count beyond the quota before the window expires
MaxOver == 1

(* ------------------------- program constants -------------------------- *)

\* TicketRequest.text: Field(..., min_length=10, max_length=1000)
MinLength == 10
MaxLength == 1000
\* client.chat.completions.create(..., max_retries=3)
MaxRetries == 3
\* @limiter.limit("10/minute")
Quota == 10
Window == 60

\* settings.api_key, the configured service key
ApiKey == "service-key"
\* the X-API-Key header is absent (APIKeyHeader(auto_error=False) gives None)
NoKey == "<none>"

Conns == 1 .. MaxConns
Addrs == {"10.0.0.1", "10.0.0.2"}
Keys == {NoKey, ApiKey, "wrong-key"}

\* A request body: whether it is syntactically JSON (json.JSONDecodeError
\* otherwise), whether it has a string "text", and the length of that text.
Body(syntax_ok, has_text, len) ==
    [syntax_ok |-> syntax_ok, has_text |-> has_text, len |-> len]

TextLens == {MinLength - 1, MinLength, MaxLength, MaxLength + 1}

Bodies ==
    {Body(FALSE, FALSE, 0), Body(TRUE, FALSE, 0)}
        \cup {Body(TRUE, TRUE, n) : n \in TextLens}

(* ------------------------------ schema -------------------------------- *)

TicketCategory ==
    {"order_issue", "account_access", "product_inquiry",
     "technical_support", "billing", "other"}

CustomerSentiment == {"angry", "frustrated", "neutral", "satisfied"}

TicketUrgency == {"low", "medium", "high", "critical"}

ClassificationFields ==
    {"category", "urgency", "sentiment", "confidence",
     "key_information", "suggested_action"}

\* Mutant of TicketClassification: the bounds of confidence are not enforced.
TicketClassificationNoBounds(raw) ==
    /\ ClassificationFields \subseteq DOMAIN raw
    /\ raw.category \in TicketCategory
    /\ raw.urgency \in TicketUrgency
    /\ raw.sentiment \in CustomerSentiment

\* TicketClassification(BaseModel): a raw model output validates iff every
\* field is present, the three enums are members and 0 <= confidence <= 1.
\* confidence takes the float values -1.0, 0.0, 1.0, 2.0 here.
TicketClassification(raw) ==
    /\ ClassificationFields \subseteq DOMAIN raw
    /\ raw.category \in TicketCategory
    /\ raw.urgency \in TicketUrgency
    /\ raw.sentiment \in CustomerSentiment
    /\ raw.confidence >= 0
    /\ raw.confidence <= 1

\* Mutant of TicketRequest: max_length is not enforced.
TicketRequestNoMax(body) ==
    /\ body.has_text
    /\ body.len >= MinLength

\* TicketRequest(BaseModel): text is required, 10 <= len(text) <= 1000.
TicketRequest(body) ==
    /\ body.has_text
    /\ body.len >= MinLength
    /\ body.len <= MaxLength

(* --------------------------- model outputs ---------------------------- *)

GoodFull ==
    [category |-> "order_issue", urgency |-> "high", sentiment |-> "frustrated",
     confidence |-> 1, key_information |-> <<"12345">>,
     suggested_action |-> "refund"]

\* key_information may be empty, suggested_action is not required non-empty
GoodMinimal ==
    [category |-> "other", urgency |-> "low", sentiment |-> "neutral",
     confidence |-> 0, key_information |-> <<>>, suggested_action |-> ""]

MissingUrgency ==
    [category |-> "billing", sentiment |-> "angry", confidence |-> 1,
     key_information |-> <<>>, suggested_action |-> "call"]

RawOutputs ==
    {GoodFull, GoodMinimal, MissingUrgency,
     [GoodFull EXCEPT !.confidence = 2],
     [GoodFull EXCEPT !.confidence = -1],
     [GoodFull EXCEPT !.category = "shipping"]}

ProviderErrors == {"Connection error.", "Error code: 500 - provider detail"}

\* What one call of the patched client's underlying create() gives back:
\* a structured output, text that does not decode, or an exception.
Outcomes ==
    {[kind |-> "output", raw |-> r] : r \in RawOutputs}
        \cup {[kind |-> "garbage"]}
        \cup {[kind |-> "error", text |-> t] : t \in ProviderErrors}

ValidationText == "validation error for TicketClassification"

(* ------------------------- security.py -------------------------------- *)

\* Mutant of authenticate_api_key: an absent header is let through.
authenticate_api_key_absent_ok(api_key) ==
    IF api_key # ApiKey /\ api_key # NoKey
    THEN [ok |-> FALSE, status |-> 403, detail |-> "Could not validate API key"]
    ELSE [ok |-> TRUE, status |-> 0, detail |-> ""]

\* authenticate_api_key: raises HTTPException(403) unless the header equals
\* settings.api_key.
authenticate_api_key(api_key) ==
    IF api_key # ApiKey
    THEN [ok |-> FALSE, status |-> 403, detail |-> "Could not validate API key"]
    ELSE [ok |-> TRUE, status |-> 0, detail |-> ""]

(* ------------------------- rate limiter ------------------------------- *)

\* MemoryStorage.get as FixedWindowRateLimiter uses it: an entry whose expiry
\* has passed counts as absent.
StorageGet(st, ex, key, t) == IF ex[key] <= t THEN 0 ELSE st[key]

\* Mutant of WithinLimit: the comparison is off by one.
WithinLimitOffByOne(count) == count <= Quota + 1

\* FixedWindowRateLimiter.hit: the incremented counter is within the amount.
WithinLimit(count) == count <= Quota

\* limiter.hit for "10/minute" keyed by get_remote_address: the counter is
\* incremented whether or not the hit is within the limit; the window opens
\* at the hit that makes the counter 1 and is never extended.
Hit(st, ex, key, t) ==
    LET count == StorageGet(st, ex, key, t) + 1
    IN  [storage |-> [st EXCEPT ![key] = count],
         expirations |-> [ex EXCEPT ![key] = IF count = 1 THEN t + Window ELSE @],
         ok |-> WithinLimit(count)]

(* ---------------------------- responses ------------------------------- *)

Reply(status, field, text, result) ==
    [status |-> status, field |-> field, text |-> text, result |-> result]

\* http_exception_handler as written: {"message": exc.detail}. Line 192 calls
\* app.exception_handler(HTTPException) and drops the decorator it returns,
\* so this function is never installed.
http_exception_handler(status, detail) == Reply(status, "message", detail, <<>>)

\* The handler FastAPI keeps for HTTPException: {"detail": exc.detail}.
InstalledHTTPExceptionHandler(status, detail) ==
    Reply(status, "detail", detail, <<>>)

\* slowapi's _rate_limit_exceeded_handler: {"error": "Rate limit exceeded: ..."}
rate_limit_exceeded_handler == Reply(429, "error", "Rate limit exceeded: 10 per 1 minute", <<>>)

\* Mutant of RequestValidationReply: validation errors answered 400.
RequestValidationReply400 == Reply(400, "detail", "request validation errors", <<>>)

\* No handler is installed for RequestValidationError: FastAPI answers 422
\* with the list of validation errors under "detail".
RequestValidationReply == Reply(422, "detail", "request validation errors", <<>>)

(* --------------------------- request order ---------------------------- *)

\* Where the handling of a POST /classify_ticket stops before the endpoint:
\* the body is JSON-decoded first, then the dependency authenticate_api_key
\* is resolved, then the body is validated against TicketRequest; a request
\* that passes all three is handed to the (limiter-wrapped) endpoint.
Stage(key, body) ==
    IF ~body.syntax_ok THEN "decode"
    ELSE IF ~authenticate_api_key(key).ok THEN "auth"
    ELSE IF ~TicketRequest(body) THEN "validate"
    ELSE "endpoint"

\* Mutant of ReachesLimiter: the limiter runs as soon as the body is decoded,
\* before the API key is looked at.
ReachesLimiterBeforeAuth(key, body) == body.syntax_ok

\* @limiter.limit decorates the endpoint function, under @app.post: the
\* limiter is hit when the endpoint is called, that is after the dependency
\* and the body have been accepted.
ReachesLimiter(key, body) == Stage(key, body) = "endpoint"

(* --------------------------- classify_ticket -------------------------- *)

\* Whether one call of the model produced a TicketClassification.
Parsed(o) == o.kind = "output" /\ TicketClassification(o.raw)

\* What went wrong with a call that did not.
Failure(o) == IF o.kind = "error" THEN "api_error" ELSE "validation"

\* str(e) of the exception an unsuccessful call ends in.
Cause(o) == IF o.kind = "error" THEN o.text ELSE ValidationText

\* Mutant of RetryAgain: one attempt too many.
RetryAgainOneMore(attempt, failure) == attempt <= MaxRetries

\* max_retries=3 on the instructor-patched create(): the call is made again
\* after an attempt that raised, whatever it raised (an output that does not
\* validate, or an error of the call itself), until 3 attempts were made.
RetryAgain(attempt, failure) == attempt < MaxRetries

\* Mutant of ErrorDetail: the exception text is put in the response.
ErrorDetailLeaks(cause) == cause

\* raise HTTPException(status_code=500, detail="Error classifying ticket")
ErrorDetail(cause) == "Error classifying ticket"

(* ------------------------------- state -------------------------------- *)

VARIABLES
    conns,          \* per connection: the request being handled
    blocked,        \* the connection whose request holds the event loop
                    \* inside the synchronous model call, 0 when none
    storage,        \* the limiter's counters, by remote address
    expirations,    \* the limiter's window ends, by remote address (0: none)
    now,            \* the clock, in seconds
    last,           \* the last response sent, with the request it answers
    admits          \* history: when each address's requests of the last
                    \* Window seconds entered classify_ticket

vars == <<conns, blocked, storage, expirations, now, last, admits>>

NoBody == Body(TRUE, FALSE, 0)

Idle ==
    [pc |-> "idle", kind |-> "-", addr |-> "-", key |-> NoKey,
     body |-> NoBody, full |-> FALSE, trail |-> <<>>]

Pending(kind) == [Idle EXCEPT !.pc = "pending", !.kind = kind]

NoLog == [level |-> "-", msg |-> "", arg |-> ""]

\* A response as sent: the request (kind, addr, key, body), whether the
\* limiter's count for addr had reached the quota when the limiter was hit
\* (full), the reply, the result of each model call made for it (trail) and
\* what logger wrote while handling it.
Sent(kind, addr, key, body, full, reply, trail, logged) ==
    [kind |-> kind, addr |-> addr, key |-> key, body |-> body, full |-> full,
     status |-> reply.status, field |-> reply.field, text |-> reply.text,
     result |-> reply.result, trail |-> trail, logged |-> logged]

Init ==
    /\ conns = [c \in Conns |-> Idle]
    /\ blocked = 0
    /\ storage = [a \in Addrs |-> 0]
    /\ expirations = [a \in Addrs |-> 0]
    /\ now = 0
    /\ last = Sent("-", "-", NoKey, NoBody, FALSE, Reply(0, "", "", <<>>),
                   <<>>, NoLog)
    /\ admits = [a \in Addrs |-> <<>>]

\* Whether the event loop can run the handler of a request that has arrived:
\* it cannot while a handler sits in the synchronous model call.
LoopFree == blocked = 0

(* ------------------------------ actions ------------------------------- *)

\* A client's request arrives on connection c.
Arrive(c, kind) ==
    /\ conns[c].pc = "idle"
    /\ conns' = [conns EXCEPT ![c] = Pending(kind)]
    /\ UNCHANGED <<blocked, storage, expirations, now, last, admits>>

\* GET /health
health(c) ==
    /\ LoopFree
    /\ conns[c].pc = "pending"
    /\ conns[c].kind = "health"
    /\ conns' = [conns EXCEPT ![c] = Idle]
    /\ last' = Sent("health", "-", NoKey, NoBody, FALSE,
                    Reply(200, "status", "healthy", <<>>), <<>>, NoLog)
    /\ UNCHANGED <<blocked, storage, expirations, now, admits>>

\* POST /classify_ticket up to the first call of the model: decode, auth,
\* validation, the limiter, and the entry into classify_ticket.
api_classify_ticket(c, addr, key, body) ==
    /\ LoopFree
    /\ conns[c].pc = "pending"
    /\ conns[c].kind = "classify"
    /\ LET stage == Stage(key, body)
           limited == ReachesLimiter(key, body)
           seen == StorageGet(storage, expirations, addr, now)
           hit == Hit(storage, expirations, addr, now)
           full == limited /\ seen >= Quota
           reply ==
               IF stage = "decode" THEN RequestValidationReply
               ELSE IF limited /\ ~hit.ok THEN rate_limit_exceeded_handler
               ELSE IF stage = "auth"
                    THEN InstalledHTTPExceptionHandler(
                             authenticate_api_key(key).status,
                             authenticate_api_key(key).detail)
               ELSE RequestValidationReply
       IN  /\ limited => seen < Quota + MaxOver
           /\ storage' = IF limited THEN hit.storage ELSE storage
           /\ expirations' = IF limited THEN hit.expirations ELSE expirations
           /\ IF stage = "endpoint" /\ (limited => hit.ok)
              THEN /\ conns' = [conns EXCEPT ![c] =
                           [pc |-> "in_model", kind |-> "classify",
                            addr |-> addr, key |-> key, body |-> body,
                            full |-> full,
                            trail |-> <<>>]]
                   /\ blocked' = c
                   /\ admits' = [admits EXCEPT ![addr] = Append(@, now)]
                   /\ UNCHANGED last
              ELSE /\ conns' = [conns EXCEPT ![c] = Idle]
                   /\ last' = Sent("classify", addr, key, body, full, reply,
                                   <<>>, NoLog)
                   /\ UNCHANGED <<blocked, admits>>
    /\ UNCHANGED now

\* One call of the model made inside classify_ticket comes back with o: the
\* result is returned, or the call is made again, or classify_ticket logs
\* the exception and raises its HTTPException.
ModelReturns(c, o) ==
    /\ conns[c].pc = "in_model"
    /\ LET r == conns[c]
           trail == Append(r.trail, IF Parsed(o) THEN "ok" ELSE Failure(o))
       IN  IF Parsed(o)
           THEN /\ conns' = [conns EXCEPT ![c] = Idle]
                /\ blocked' = 0
                /\ last' = Sent("classify", r.addr, r.key, r.body, r.full,
                                Reply(200, "", "", <<o.raw>>), trail,
                                [level |-> "info", msg |-> "Ticket classified",
                                 arg |-> o.raw.category])
           ELSE IF RetryAgain(Len(trail), Failure(o))
           THEN /\ conns' = [conns EXCEPT ![c].trail = trail]
                /\ UNCHANGED <<blocked, last>>
           ELSE /\ conns' = [conns EXCEPT ![c] = Idle]
                /\ blocked' = 0
                /\ last' = Sent("classify", r.addr, r.key, r.body, r.full,
                                InstalledHTTPExceptionHandler(
                                    500, ErrorDetail(Cause(o))), trail,
                                [level |-> "error",
                                 msg |-> "Error classifying ticket",
                                 arg |-> Cause(o)])
    /\ UNCHANGED <<storage, expirations, now, admits>>

\* Time passes; the storage's timer drops the entries whose window is over.
Tick ==
    /\ now < MaxTicks * TickStep
    /\ now' = now + TickStep
    /\ storage' = [a \in Addrs |-> IF expirations[a] <= now' THEN 0 ELSE storage[a]]
    /\ expirations' = [a \in Addrs |-> IF expirations[a] <= now' THEN 0 ELSE expirations[a]]
    /\ admits' = [a \in Addrs |->
                     SelectSeq(admits[a], LAMBDA t : t > now' - Window)]
    /\ UNCHANGED <<conns, blocked, last>>

(* --------------------------- specifications --------------------------- *)

\* Every shape of request, from one client, within one limiter window.
Next ==
    \/ \E c \in Conns, kind \in {"classify", "health"} : Arrive(c, kind)
    \/ \E c \in Conns : health(c)
    \/ \E c \in Conns, key \in Keys, body \in Bodies :
           api_classify_ticket(c, "10.0.0.1", key, body)
    \/ \E c \in Conns, o \in Outcomes : ModelReturns(c, o)

Spec == Init /\ [][Next]_vars

\* The limiter over time: well-formed requests with and without the right
\* key, from two clients, one request at a time (the limiter is hit inside
\* the handler, and the event loop runs one handler at a time), the model
\* answering each at the first call.
NextRate ==
    \/ Arrive(1, "classify")
    \/ \E addr \in Addrs, key \in {ApiKey, "wrong-key"} :
           api_classify_ticket(1, addr, key, Body(TRUE, TRUE, MinLength))
    \/ ModelReturns(1, [kind |-> "output", raw |-> GoodFull])
    \/ Tick

SpecRate == Init /\ [][NextRate]_vars

(* ------------------------------ claims -------------------------------- *)

Classify == last.kind = "classify"

OutOfBounds(body) ==
    body.has_text /\ (body.len < MinLength \/ body.len > MaxLength)

InModel(c) == conns[c].pc = "in_model"

\* The admissions of address a that fall in its current limiter window.
InWindow(a) ==
    {i \in 1 .. Len(admits[a]) : admits[a][i] >= expirations[a] - Window}

\* C1 as stated: a request without the right API key is answered 403 and no
\* model call is made for it, whatever its body.
C1_Original ==
    (Classify /\ last.key # ApiKey) => (last.status = 403 /\ last.trail = <<>>)

\* C1, amended: a request without the right API key never reaches the model
\* client; it is answered 403 when its body is syntactically JSON and 422
\* when it has a JSON syntax error (the body is decoded before the key is
\* checked), whatever the rest of the body and the state of the limiter.
C1_Unauthorized ==
    /\ \A c \in Conns : InModel(c) => conns[c].key = ApiKey
    /\ (Classify /\ last.key # ApiKey) =>
           /\ last.trail = <<>>
           /\ last.status = IF last.body.syntax_ok THEN 403 ELSE 422

C1_Witness ==
    /\ Classify
    /\ last.key = NoKey
    /\ last.status = 403
    /\ OutOfBounds(last.body)
    /\ storage[last.addr] > Quota

\* C2 as stated: a request whose text is shorter than 10 or longer than 1000
\* is rejected with a validation error and never reaches the model.
C2_Original ==
    /\ \A c \in Conns : InModel(c) => ~OutOfBounds(conns[c].body)
    /\ (Classify /\ OutOfBounds(last.body)) =>
           (last.status = 422 /\ last.trail = <<>>)

\* C2, amended: a request whose text is shorter than 10 or longer than 1000
\* is rejected without any model call, with the validation error (422) when
\* its API key is right and with 403 when it is not; only texts of length
\* 10..1000 reach classify_ticket.
C2_TextBounds ==
    /\ \A c \in Conns :
           InModel(c) => /\ conns[c].body.has_text
                         /\ conns[c].body.len \in MinLength .. MaxLength
    /\ (Classify /\ last.trail # <<>>) =>
           last.body.len \in MinLength .. MaxLength
    /\ (Classify /\ OutOfBounds(last.body)) =>
           /\ last.trail = <<>>
           /\ last.status = IF last.key = ApiKey THEN 422 ELSE 403

C2_Witness ==
    /\ Classify
    /\ last.key = ApiKey
    /\ last.body.has_text
    /\ last.body.len = MaxLength + 1
    /\ last.status = 422

\* C4: a 200 response of POST /classify_ticket carries all six fields, the
\* three enums are members and 0 <= confidence <= 1; an output that fails
\* validation is never the one returned.
C4_ValidResult ==
    (Classify /\ last.status = 200) =>
        /\ Len(last.result) = 1
        /\ DOMAIN last.result[1] = ClassificationFields
        /\ last.result[1].category \in TicketCategory
        /\ last.result[1].urgency \in TicketUrgency
        /\ last.result[1].sentiment \in CustomerSentiment
        /\ last.result[1].confidence >= 0
        /\ last.result[1].confidence <= 1
        /\ last.trail[Len(last.trail)] = "ok"

C4_Witness ==
    /\ Classify
    /\ last.status = 200
    /\ last.trail = <<"validation", "ok">>
    /\ last.result = <<GoodMinimal>>

\* C5: when every call of the model raised, the response is 500 with the
\* fixed message; the exception's text is logged and is not in the response.
C5_GenericFailure ==
    (Classify /\ last.trail # <<>>
        /\ \A i \in 1 .. Len(last.trail) : last.trail[i] # "ok") =>
        /\ last.status = 500
        /\ last.text = "Error classifying ticket"
        /\ last.text \notin ProviderErrors \cup {ValidationText}
        /\ last.logged.level = "error"
        /\ last.logged.arg \in ProviderErrors \cup {ValidationText}

C5_Witness ==
    /\ Classify
    /\ last.status = 500
    /\ last.trail = <<"api_error", "api_error", "api_error">>
    /\ last.logged.arg = "Connection error."

\* C6 as stated: the 403, 429 and 500 responses of the declared errors have
\* a body of the shape {message: <text>}.
C6_MessageBody ==
    (Classify /\ last.status \in {403, 429, 500}) => last.field = "message"

\* C7 as stated: a malformed body or an out-of-bounds text is answered 400.
C7_Original ==
    (Classify /\ (~last.body.syntax_ok \/ ~last.body.has_text
                    \/ OutOfBounds(last.body))) => last.status = 400

\* C7, amended: a body with a JSON syntax error, and, from a caller with the
\* right API key, a body whose text is missing or out of bounds, is answered
\* 422 by request validation, before the limiter and the pipeline.
C7_Unprocessable ==
    (Classify /\ (~last.body.syntax_ok
                    \/ (last.key = ApiKey
                          /\ (~last.body.has_text \/ OutOfBounds(last.body))))) =>
        /\ last.status = 422
        /\ last.field = "detail"
        /\ last.trail = <<>>
        /\ ~last.full

C7_Witness ==
    /\ Classify
    /\ last.key = ApiKey
    /\ last.body.has_text
    /\ last.body.len = MinLength - 1
    /\ last.status = 422
    /\ storage[last.addr] > Quota

\* C9 as stated: at most 3 attempts, a further attempt only after an output
\* that failed validation, the first valid output returned, and failure
\* once the 3 attempts are used up.
C9_Original ==
    /\ \A c \in Conns : InModel(c) =>
           /\ Len(conns[c].trail) < MaxRetries
           /\ \A i \in 1 .. Len(conns[c].trail) : conns[c].trail[i] = "validation"
    /\ (Classify /\ last.trail # <<>>) =>
           /\ Len(last.trail) <= MaxRetries
           /\ \A i \in 1 .. Len(last.trail) - 1 : last.trail[i] = "validation"

\* C9, amended: at most 3 attempts; a further attempt is made after any
\* attempt that raised, be it an output that failed validation or an error
\* of the call itself; the first valid output is returned at once (200) and
\* a third failed attempt ends the call in the classification failure (500).
C9_BoundedRetries ==
    /\ \A c \in Conns : InModel(c) =>
           /\ Len(conns[c].trail) < MaxRetries
           /\ \A i \in 1 .. Len(conns[c].trail) : conns[c].trail[i] # "ok"
    /\ (Classify /\ last.trail # <<>>) =>
           /\ Len(last.trail) <= MaxRetries
           /\ \A i \in 1 .. Len(last.trail) - 1 : last.trail[i] # "ok"
           /\ last.trail[Len(last.trail)] = "ok" => last.status = 200
           /\ last.trail[Len(last.trail)] # "ok" =>
                  (Len(last.trail) = MaxRetries /\ last.status = 500)

C9_Witness ==
    /\ Classify
    /\ last.status = 200
    /\ last.trail = <<"api_error", "validation", "ok">>

\* C10 as stated: while one request waits for the model, any other request
\* that has arrived can be handled.
C10_Independent ==
    \A c, d \in Conns :
        (InModel(c) /\ conns[d].pc = "pending") =>
            ENABLED (\/ health(d)
                     \/ \E addr \in Addrs, key \in Keys, body \in Bodies :
                            api_classify_ticket(d, addr, key, body))

\* C3 as stated: at most 10 admissions per address in any rolling 60 seconds.
C3_Rolling == \A a \in Addrs : Len(admits[a]) <= Quota

\* C3, amended: at most 10 requests of an address are admitted per limiter
\* window, a fixed window of 60 seconds that opens at the first request
\* counted after the previous window ended (hence at most 20 in any rolling
\* 60 seconds); a request that finds 10 already
\* counted in the window of its own address is answered 429 and does not
\* enter the pipeline, and only then.
C3_FixedWindow ==
    /\ \A a \in Addrs :
           /\ expirations[a] > now => Cardinality(InWindow(a)) <= Quota
           /\ Len(admits[a]) <= 2 * Quota
    /\ \A c \in Conns : InModel(c) => ~conns[c].full
    /\ (Classify /\ last.key = ApiKey /\ ~OutOfBounds(last.body)) =>
           /\ last.status = 429 <=> last.full
           /\ last.status = 429 => last.trail = <<>>

C3_Witness ==
    /\ Classify
    /\ last.status = 429
    /\ last.addr = "10.0.0.1"
    /\ Len(admits["10.0.0.1"]) = Quota
    /\ storage["10.0.0.1"] > Quota
    /\ \E c \in Conns : InModel(c) /\ conns[c].addr = "10.0.0.2"

=============================================================================
